---- MODULE Spec2Model ----
(***************************************************************************)
(* A model of metal_monitor.py: the indicator arithmetic (calculate_rsi,   *)
(* analyze_strategy), the gold/silver ratio classification, the chart      *)
(* renderer, the Discord notifier and the orchestrator main().             *)
(*                                                                         *)
(* Prices are positive integers.  Every derived number is an extended      *)
(* rational (finite n/d, +-infinity or NaN) following the IEEE rules that  *)
(* pandas/numpy apply: x/0 is +-inf, 0/0 is NaN, every comparison with NaN *)
(* is false.  Rounding of binary floating point is not modelled.           *)
(***************************************************************************)
EXTENDS Integers, Sequences, FiniteSets, TLC

VARIABLES pc, webhook, df, ran, gs, figures, chart, msg, posts,
          logged, skipped, propagated, fault, exists, result

vars == <<pc, webhook, df, ran, gs, figures, chart, msg, posts,
          logged, skipped, propagated, fault, exists, result>>

\* ------------------------------------------------------------------------
\* Bounds of the model
\* ------------------------------------------------------------------------
MaxRows == 15
MaxShort == 5
MaxLong == 16

\* ------------------------------------------------------------------------
\* Configuration
\* ------------------------------------------------------------------------
TARGETS == <<"GC=F", "SI=F", "DX-Y.NYB", "00635U.TW", "9955.TW">>

Codes == {TARGETS[i] : i \in 1..Len(TARGETS)}

report_order == <<"GC=F", "SI=F", "00635U.TW", "9955.TW", "DX-Y.NYB">>

period == 14

\* ------------------------------------------------------------------------
\* Extended rationals: what a float64 holds, without rounding
\* ------------------------------------------------------------------------
Fin(n, d) == [k |-> "fin", n |-> n, d |-> d]
NaN == [k |-> "nan", n |-> 0, d |-> 1]
Inf(s) == [k |-> "inf", n |-> s, d |-> 1]

Sign(x) == IF x > 0 THEN 1 ELSE IF x < 0 THEN -1 ELSE 0

IsNaN(a) == a.k = "nan"
IsFinite(a) == a.k = "fin"

FNeg(a) == [a EXCEPT !.n = -a.n]

FAdd(a, b) ==
    IF IsNaN(a) \/ IsNaN(b) THEN NaN
    ELSE IF a.k = "inf" /\ b.k = "inf" THEN (IF a.n = b.n THEN a ELSE NaN)
    ELSE IF a.k = "inf" THEN a
    ELSE IF b.k = "inf" THEN b
    ELSE Fin(a.n * b.d + b.n * a.d, a.d * b.d)

FSub(a, b) == FAdd(a, FNeg(b))

FMul(a, b) ==
    IF IsNaN(a) \/ IsNaN(b) THEN NaN
    ELSE IF a.k = "inf" \/ b.k = "inf"
         THEN (IF a.n = 0 \/ b.n = 0 THEN NaN ELSE Inf(Sign(a.n) * Sign(b.n)))
    ELSE Fin(a.n * b.n, a.d * b.d)

FDiv(a, b) ==
    IF IsNaN(a) \/ IsNaN(b) THEN NaN
    ELSE IF a.k = "inf" THEN (IF b.k = "inf" THEN NaN
                              ELSE Inf(a.n * (IF b.n < 0 THEN -1 ELSE 1)))
    ELSE IF b.k = "inf" THEN Fin(0, 1)
    ELSE IF b.n = 0 THEN (IF a.n = 0 THEN NaN ELSE Inf(Sign(a.n)))
    ELSE Fin(a.n * b.d * Sign(b.n), a.d * b.n * Sign(b.n))

\* a > b and a < b as float comparisons: false as soon as one side is NaN
FGt(a, b) ==
    IF IsNaN(a) \/ IsNaN(b) THEN FALSE
    ELSE IF a.k = "inf" THEN a.n = 1 /\ ~(b.k = "inf" /\ b.n = 1)
    ELSE IF b.k = "inf" THEN b.n = -1
    ELSE a.n * b.d > b.n * a.d

FLt(a, b) == FGt(b, a)

FEq(a, b) ==
    IF IsNaN(a) \/ IsNaN(b) THEN FALSE
    ELSE IF a.k = "inf" \/ b.k = "inf" THEN a.k = b.k /\ a.n = b.n
    ELSE a.n * b.d = b.n * a.d

Num(i) == Fin(i, 1)

\* ------------------------------------------------------------------------
\* calculate_rsi
\* ------------------------------------------------------------------------
RECURSIVE SumSeq(_)
SumSeq(s) == IF s = <<>> THEN 0 ELSE Head(s) + SumSeq(Tail(s))

\* series.diff(): position 1 is NaN (marked by the flag), then p[i] - p[i-1]
Diff(series) ==
    [i \in 1..Len(series) |->
        IF i = 1 THEN [nan |-> TRUE, v |-> 0]
        ELSE [nan |-> FALSE, v |-> series[i] - series[i - 1]]]

\* delta.where(delta > 0, 0): NaN > 0 is false, so the NaN becomes 0
Gains(series) ==
    LET delta == Diff(series)
    IN [i \in 1..Len(series) |->
           IF ~delta[i].nan /\ delta[i].v > 0 THEN delta[i].v ELSE 0]

\* -delta.where(delta < 0, 0)
Losses(series) ==
    LET delta == Diff(series)
    IN [i \in 1..Len(series) |->
           IF ~delta[i].nan /\ delta[i].v < 0 THEN -delta[i].v ELSE 0]

\* x.rolling(window).mean() at the last position: NaN below window values
RollingMeanLast(x, window) ==
    IF Len(x) < window THEN NaN
    ELSE Fin(SumSeq(SubSeq(x, Len(x) - window + 1, Len(x))), window)

RelativeStrength(series) ==
    FDiv(RollingMeanLast(Gains(series), period),
         RollingMeanLast(Losses(series), period))

RsiBadFormula(series) ==
    FSub(Num(100), FDiv(Num(100), FSub(Num(1), RelativeStrength(series))))

\* calculate_rsi(series).iloc[-1]
calculate_rsi(series) ==
    FSub(Num(100), FDiv(Num(100), FAdd(Num(1), RelativeStrength(series))))

\* ------------------------------------------------------------------------
\* analyze_strategy
\* ------------------------------------------------------------------------
None == [ok |-> FALSE]

HasColumn(table, code) == \E i \in 1..Len(table.columns) : table.columns[i] = code

status_icon_inclusive(change_pct) ==
    IF ~FLt(change_pct, Num(2)) /\ ~IsNaN(change_pct) THEN "big up"
    ELSE IF ~FGt(change_pct, Num(-2)) /\ ~IsNaN(change_pct) THEN "big down"
    ELSE IF FGt(change_pct, Num(0)) THEN "up"
    ELSE "down"

status_icon(change_pct) ==
    IF FGt(change_pct, Num(2)) THEN "big up"
    ELSE IF FLt(change_pct, Num(-2)) THEN "big down"
    ELSE IF FGt(change_pct, Num(0)) THEN "up"
    ELSE "down"

rsi_note_reordered(current_rsi) ==
    IF FGt(current_rsi, Num(75)) THEN "overheated"
    ELSE IF FGt(current_rsi, Num(50)) THEN "strong"
    ELSE IF FGt(current_rsi, Num(30)) \/ FEq(current_rsi, Num(30))
         THEN "consolidating"
    ELSE "oversold"

rsi_note(current_rsi) ==
    IF FGt(current_rsi, Num(75)) THEN "overheated"
    ELSE IF FGt(current_rsi, Num(50)) THEN "strong"
    ELSE IF FLt(current_rsi, Num(30)) THEN "oversold"
    ELSE "consolidating"

percent_change(current_price, prev_price) ==
    FMul(FDiv(Num(current_price - prev_price), Num(prev_price)), Num(100))

\* The body of the try block; the three raise points come first
analyze_body(table, code) ==
    IF ~HasColumn(table, code) THEN [raised |-> "KeyError"]
    ELSE IF table.rows < 2 THEN [raised |-> "IndexError"]
    ELSE LET prices == table.data[code]
             current_price == prices[Len(prices)]
             prev_price == prices[Len(prices) - 1]
             change_pct == percent_change(current_price, prev_price)
             current_rsi == calculate_rsi(prices)
         IN [raised |-> "",
             value |-> [ok |-> TRUE,
                        price |-> current_price,
                        change |-> change_pct,
                        rsi |-> current_rsi,
                        icon |-> status_icon(change_pct),
                        note |-> rsi_note(current_rsi)]]

analyze_drop_nonfinite(table, code) ==
    LET r == analyze_body(table, code)
    IN IF r.raised # "" THEN None
       ELSE IF ~IsFinite(RelativeStrength(table.data[code])) THEN None
       ELSE r.value

analyze_strategy(table, code) ==
    LET r == analyze_body(table, code)
    IN IF r.raised # "" THEN None ELSE r.value

\* ------------------------------------------------------------------------
\* The fetched table (a DataFrame of closes): the number of rows, the
\* columns in the order the provider returns them, one series per column
\* ------------------------------------------------------------------------
NoTable == [rows |-> 0, columns |-> <<>>, data |-> [c \in Codes |-> <<>>]]

\* yfinance orders the columns alphabetically; TARGETS is the order asked for
ColumnOrders ==
    {<<"00635U.TW", "9955.TW", "DX-Y.NYB", "GC=F", "SI=F">>, TARGETS}

Flat(n) == [i \in 1..n |-> 100]
Rise(n) == [i \in 1..n |-> 100 + i]
Fall(n) == [i \in 1..n |-> 200 - i]
Zig(n) == [i \in 1..n |-> IF i % 2 = 0 THEN 103 ELSE 100]

ShapeNames == {"flat", "rise", "fall", "zig"}

Series(shape, n) ==
    IF shape = "flat" THEN Flat(n)
    ELSE IF shape = "rise" THEN Rise(n)
    ELSE IF shape = "fall" THEN Fall(n)
    ELSE Zig(n)

Table(n, order, present, shape) ==
    [rows |-> n,
     columns |-> SelectSeq(order, LAMBDA c : c \in present),
     data |-> [c \in Codes |-> IF c \in present THEN Series(shape[c], n)
                               ELSE <<>>]]

\* df.empty: no rows or no columns
NeverEmpty(table) == FALSE

IsEmpty(table) == table.rows = 0 \/ table.columns = <<>>

\* ------------------------------------------------------------------------
\* main(): the catch-all of line 187
\* ------------------------------------------------------------------------
ExceptionClasses ==
    {"KeyError", "IndexError", "ValueError", "OSError", "ConnectionError"}

CatchesKeyErrorOnly(exc) == exc = "KeyError"

\* except Exception: every class above derives from Exception
MainCatches(exc) == exc \in ExceptionClasses

\* An exception leaves the try block at `stage`: caught and printed, or not
Raise(stage, exc) ==
    /\ ran' = Append(ran, stage)
    /\ IF MainCatches(exc)
       THEN /\ logged' = Append(logged, [stage |-> stage, exc |-> exc])
            /\ pc' = "done"
            /\ UNCHANGED propagated
       ELSE /\ propagated' = TRUE
            /\ pc' = "crashed"
            /\ UNCHANGED logged

\* lines 146-147: get_market_data(), then `if df.empty: return`
Fetch ==
    /\ pc = "fetch"
    /\ \/ /\ Raise("fetch", "ConnectionError")
          /\ fault' = "fetch"
          /\ UNCHANGED df
       \/ /\ \E n \in 0..MaxRows, present \in SUBSET Codes,
                order \in ColumnOrders :
                \E shape \in [present -> ShapeNames] :
                   LET t == Table(n, order, present, shape)
                   IN /\ df' = t
                      /\ pc' = IF IsEmpty(t) THEN "done" ELSE "ratio"
          /\ ran' = Append(ran, "fetch")
          /\ UNCHANGED <<logged, propagated, fault>>
    /\ UNCHANGED <<webhook, gs, figures, chart, msg, posts, skipped, exists, result>>

\* lines 156-158
gs_status_inclusive(gs_ratio) ==
    IF ~FLt(gs_ratio, Num(85)) /\ ~IsNaN(gs_ratio) THEN "silver oversold"
    ELSE IF ~FGt(gs_ratio, Num(60)) /\ ~IsNaN(gs_ratio) THEN "gold strong"
    ELSE "normal"

gs_status(gs_ratio) ==
    IF FGt(gs_ratio, Num(85)) THEN "silver oversold"
    ELSE IF FLt(gs_ratio, Num(60)) THEN "gold strong"
    ELSE "normal"

Last(s) == s[Len(s)]

\* lines 150-158
ComputeRatio ==
    /\ pc = "ratio"
    /\ IF ~HasColumn(df, "GC=F") \/ ~HasColumn(df, "SI=F")
       THEN Raise("ratio", "KeyError") /\ UNCHANGED gs
       ELSE IF df.rows = 0
       THEN Raise("ratio", "IndexError") /\ UNCHANGED gs
       ELSE LET gold_price == Last(df.data["GC=F"])
                silver_price == Last(df.data["SI=F"])
                gs_ratio == FDiv(Num(gold_price), Num(silver_price))
            IN /\ gs' = [ratio |-> gs_ratio, status |-> gs_status(gs_ratio)]
               /\ pc' = "plot"
               /\ ran' = Append(ran, "ratio")
               /\ UNCHANGED <<logged, propagated>>
    /\ UNCHANGED <<webhook, df, figures, chart, msg, posts, skipped, fault, exists, result>>

\* The series plot_chart draws, lines 127-129
PlottedSeries == <<"GC=F", "00635U.TW", "DX-Y.NYB">>

\* lines 118-138 and 161: plt.figure() opens a figure, plt.close() is the
\* last statement before the return
PlotChart ==
    /\ pc = "plot"
    /\ IF df.rows = 0
       THEN /\ Raise("plot", "IndexError")
            /\ figures' = figures + 1
            /\ UNCHANGED <<chart, fault>>
       ELSE IF \E i \in 1..Len(PlottedSeries) : ~HasColumn(df, PlottedSeries[i])
       THEN /\ Raise("plot", "KeyError")
            /\ figures' = figures + 1
            /\ UNCHANGED <<chart, fault>>
       ELSE \/ /\ Raise("plot", "OSError")
               /\ figures' = figures + 1
               /\ fault' = "savefig"
               /\ UNCHANGED chart
            \/ /\ chart' = TRUE
               /\ figures' = (figures + 1) - 1
               /\ pc' = "build"
               /\ ran' = Append(ran, "plot")
               /\ UNCHANGED <<logged, propagated, fault>>
    /\ UNCHANGED <<webhook, df, gs, msg, posts, skipped, exists, result>>

\* lines 173-181: one block per code of report_order that is a column of the
\* table and for which analyze_strategy returns a result
RECURSIVE Blocks(_, _)
Blocks(table, order) ==
    IF order = <<>> THEN <<>>
    ELSE LET code == Head(order)
             rest == Blocks(table, Tail(order))
         IN IF ~HasColumn(table, code) THEN rest
            ELSE LET r == analyze_strategy(table, code)
                 IN IF r.ok THEN <<[code |-> code, result |-> r]>> \o rest
                    ELSE rest

ReportBlocks(table) == Blocks(table, report_order)

\* lines 164-183
BuildMessage ==
    /\ pc = "build"
    /\ \/ /\ Raise("build", "ValueError")
          /\ fault' = "build"
          /\ UNCHANGED msg
       \/ /\ msg' = [built |-> TRUE, status |-> gs.status,
                     blocks |-> ReportBlocks(df)]
          /\ pc' = "notify"
          /\ ran' = Append(ran, "build")
          /\ UNCHANGED <<logged, propagated, fault>>
    /\ UNCHANGED <<webhook, df, gs, figures, chart, posts, skipped, exists, result>>

AlwaysJson(configured, image) ==
    IF ~configured THEN "none" ELSE "json"

\* lines 100-113: which request send_discord_notify makes
Delivery(configured, image) ==
    IF ~configured THEN "none"
    ELSE IF image THEN "multipart"
    ELSE "json"

\* lines 99-116 and 185; main always supplies img_path, `found` is
\* os.path.exists(img_path), evaluated only once a destination is known
SendDiscordNotify ==
    /\ pc = "notify"
    /\ IF Delivery(webhook, TRUE) = "none"
       THEN /\ skipped' = TRUE
            /\ pc' = "done"
            /\ ran' = Append(ran, "notify")
            /\ UNCHANGED <<posts, logged, propagated, fault, exists>>
       ELSE \E found \in BOOLEAN :
              LET kind == Delivery(webhook, found)
                  request == [kind |-> kind, content |-> msg.blocks,
                              file |-> kind = "multipart"]
              IN /\ exists' = IF found THEN "yes" ELSE "no"
                 /\ \/ /\ found
                       /\ Raise("notify", "OSError")
                       /\ fault' = "open"
                       /\ UNCHANGED <<posts, skipped>>
                    \/ /\ posts' = Append(posts, request)
                       /\ Raise("notify", "ConnectionError")
                       /\ fault' = "post"
                       /\ UNCHANGED skipped
                    \/ /\ posts' = Append(posts, request)
                       /\ pc' = "done"
                       /\ ran' = Append(ran, "notify")
                       /\ UNCHANGED <<skipped, logged, propagated, fault>>
    /\ UNCHANGED <<webhook, df, gs, figures, chart, msg, result>>

NoMessage == [built |-> FALSE, status |-> "", blocks |-> <<>>]
NoRatio == [ratio |-> NaN, status |-> ""]

Init ==
    /\ pc = "fetch"
    /\ webhook \in BOOLEAN
    /\ df = NoTable
    /\ ran = <<>>
    /\ gs = NoRatio
    /\ figures = 0
    /\ chart = FALSE
    /\ msg = NoMessage
    /\ posts = <<>>
    /\ logged = <<>>
    /\ skipped = FALSE
    /\ propagated = FALSE
    /\ fault = "none"
    /\ exists = "unchecked"
    /\ result = None

Next == Fetch \/ ComputeRatio \/ PlotChart \/ BuildMessage \/ SendDiscordNotify

Spec == Init /\ [][Next]_vars

\* ------------------------------------------------------------------------
\* analyze_strategy on its own: one call on a one-column table
\* ------------------------------------------------------------------------
ShortPrices == {95, 98, 100, 102, 110}
LongPrices == {100, 102}

OneColumn(code, series) ==
    [rows |-> Len(series), columns |-> <<code>>,
     data |-> [c \in Codes |-> IF c = code THEN series ELSE <<>>]]

InitAnalyze ==
    /\ pc = "analyze"
    /\ \/ \E k \in 0..MaxShort : \E s \in [1..k -> ShortPrices] :
             \E code \in {"GC=F", "SI=F"} : df = OneColumn(code, s)
       \/ \E k \in 0..MaxLong : \E s \in [1..k -> LongPrices] :
             df = OneColumn("GC=F", s)
    /\ webhook = FALSE
    /\ ran = <<>>
    /\ gs = NoRatio
    /\ figures = 0
    /\ chart = FALSE
    /\ msg = NoMessage
    /\ posts = <<>>
    /\ logged = <<>>
    /\ skipped = FALSE
    /\ propagated = FALSE
    /\ fault = "none"
    /\ exists = "unchecked"
    /\ result = None

\* result = analyze_strategy(df, code), line 177
Analyze ==
    /\ pc = "analyze"
    /\ result' = analyze_strategy(df, "GC=F")
    /\ pc' = "analyzed"
    /\ UNCHANGED <<webhook, df, ran, gs, figures, chart, msg, posts, logged,
                   skipped, propagated, fault, exists>>

SpecAnalyze == InitAnalyze /\ [][Analyze]_vars

\* ------------------------------------------------------------------------
\* The gold/silver ratio on its own: main() just after a fetch
\* ------------------------------------------------------------------------
GoldPrices ==
    (58..62) \cup (83..87) \cup (118..122) \cup (168..172)
        \cup (1379..1381) \cup (1954..1956) \cup {2000}

SilverPrices == {1, 2, 23}

RatioTable(g, s) ==
    [rows |-> 1, columns |-> TARGETS,
     data |-> [c \in Codes |-> IF c = "GC=F" THEN <<g>>
                               ELSE IF c = "SI=F" THEN <<s>> ELSE <<100>>]]

InitRatio ==
    /\ pc = "ratio"
    /\ \E g \in GoldPrices, s \in SilverPrices : df = RatioTable(g, s)
    /\ webhook \in BOOLEAN
    /\ ran = <<"fetch">>
    /\ gs = NoRatio
    /\ figures = 0
    /\ chart = FALSE
    /\ msg = NoMessage
    /\ posts = <<>>
    /\ logged = <<>>
    /\ skipped = FALSE
    /\ propagated = FALSE
    /\ fault = "none"
    /\ exists = "unchecked"
    /\ result = None

SpecRatio == InitRatio /\ [][ComputeRatio]_vars

\* ------------------------------------------------------------------------
\* Vocabulary of the properties
\* ------------------------------------------------------------------------
EmptyTable(t) == t.rows = 0 \/ Len(t.columns) = 0

Present(t) == {t.columns[i] : i \in 1..Len(t.columns)}

BlockCodes(blocks) == [i \in 1..Len(blocks) |-> blocks[i].code]

Ran(stage) == \E i \in 1..Len(ran) : ran[i] = stage

\* The stage in which each injected failure is raised
FaultStage ==
    [f \in {"fetch", "savefig", "build", "open", "post"} |->
        IF f = "savefig" THEN "plot"
        ELSE IF f \in {"open", "post"} THEN "notify" ELSE f]

\* A column that main() or plot_chart indexes without a membership test
Required == {"GC=F", "SI=F", "00635U.TW", "DX-Y.NYB"}

C2_NotifyOnceAfterChart ==
    /\ Len(posts) <= 1
    /\ posts # <<>> =>
          /\ ~EmptyTable(df)
          /\ chart
          /\ Len(ran) >= 4
          /\ SubSeq(ran, 1, 4) = <<"fetch", "ratio", "plot", "build">>
    /\ (pc # "fetch" /\ (fault = "fetch" \/ EmptyTable(df))) =>
          /\ pc = "done"
          /\ ran = <<"fetch">>
          /\ gs = NoRatio
          /\ figures = 0
          /\ ~chart
          /\ ~msg.built
          /\ posts = <<>>
          /\ ~skipped

C2_Witness ==
    /\ pc = "done"
    /\ fault = "none"
    /\ df.rows = 0
    /\ Len(df.columns) = 5
    /\ ran = <<"fetch">>
    /\ posts = <<>>

\* C3: in a run without injected failure on a table of at least two rows,
\* every target absent from the table is skipped without an exception being
\* raised, and the remaining instruments are reported in report_order.
C3_AbsentInstrumentSkipped ==
    (pc = "done" /\ fault = "none" /\ ~EmptyTable(df) /\ df.rows >= 2) =>
        /\ logged = <<>>
        /\ msg.built
        /\ BlockCodes(msg.blocks)
              = SelectSeq(report_order, LAMBDA c : c \in Present(df))
        /\ webhook => (Len(posts) = 1 /\ posts[1].content = msg.blocks)

\* The causes of a failed analysis that the claim lists
AvgLossZero(t, c) ==
    /\ HasColumn(t, c)
    /\ t.rows >= period + 1
    /\ FEq(RollingMeanLast(Losses(t.data[c]), period), Num(0))

Raises(t, c) == ~HasColumn(t, c) \/ t.rows < 2

\* C4 as amended: analyze_strategy yields no result exactly when the column
\* is missing or the series has fewer than 2 points; a zero average loss does
\* not raise: the result carries RSI 100 (some gain) or NaN (no gain).  Every
\* message built holds, in report_order, the block of exactly the columns of
\* the table whose analysis yields a result, a zero average loss included,
\* and that message is the content of every request made.  The first part is
\* stated of every non-empty table, as main() holds it after the fetch.
C4_OnlyRaisingAnalysisDropped ==
    /\ pc = "ratio" =>
          \A c \in Codes :
              /\ analyze_strategy(df, c) = None <=> Raises(df, c)
              /\ AvgLossZero(df, c) =>
                    /\ analyze_strategy(df, c).ok
                    /\ \/ FEq(analyze_strategy(df, c).rsi, Num(100))
                       \/ IsNaN(analyze_strategy(df, c).rsi)
    /\ msg.built =>
          /\ BlockCodes(msg.blocks)
                = SelectSeq(report_order, LAMBDA c : ~Raises(df, c))
          /\ \A i \in 1..Len(msg.blocks) :
                /\ msg.blocks[i].result.ok
                /\ AvgLossZero(df, msg.blocks[i].code) =>
                      \/ FEq(msg.blocks[i].result.rsi, Num(100))
                      \/ IsNaN(msg.blocks[i].result.rsi)
          /\ \A i \in 1..Len(posts) : posts[i].content = msg.blocks

C4_Witness ==
    /\ pc = "done"
    /\ msg.built
    /\ ~HasColumn(df, "9955.TW")
    /\ AvgLossZero(df, "GC=F")
    /\ AvgLossZero(df, "SI=F")
    /\ BlockCodes(msg.blocks) = <<"GC=F", "SI=F", "00635U.TW", "DX-Y.NYB">>
    /\ FEq(msg.blocks[1].result.rsi, Num(100))
    /\ IsNaN(msg.blocks[2].result.rsi)
    /\ Len(posts) = 1
    /\ posts[1].content = msg.blocks

\* C4 as claimed: for each listed cause, a zero average loss included, the
\* instrument has no result and no block, and the others have theirs.
C4_Original ==
    (pc \in {"notify", "done"} /\ msg.built) =>
        \A c \in Codes :
            (Raises(df, c) \/ AvgLossZero(df, c)) =>
                /\ analyze_strategy(df, c) = None
                /\ \A i \in 1..Len(msg.blocks) : msg.blocks[i].code # c
                /\ \A d \in Present(df) :
                      ~(Raises(df, d) \/ AvgLossZero(df, d)) =>
                          \E i \in 1..Len(msg.blocks) : msg.blocks[i].code = d

\* C5: the request send_discord_notify makes is decided by the destination
\* and by whether the image file exists: without a destination no request is
\* ever made, the call returns normally, the run ends without an error and
\* with the chart rendered; with a destination and an existing image (that
\* open() could open) exactly one multipart request with the content and the
\* file; with a destination and no image exactly one JSON request.
C5_DeliveryChoice ==
    /\ Len(posts) <= 1
    /\ ~webhook => posts = <<>>
    /\ (~webhook /\ Ran("notify")) =>
          /\ skipped
          /\ pc = "done"
          /\ logged = <<>>
          /\ chart
          /\ exists = "unchecked"
    /\ skipped => ~webhook
    /\ (webhook /\ Ran("notify") /\ exists = "yes" /\ fault # "open") =>
          posts = <<[kind |-> "multipart", content |-> msg.blocks,
                     file |-> TRUE]>>
    /\ (webhook /\ Ran("notify") /\ exists = "no") =>
          posts = <<[kind |-> "json", content |-> msg.blocks,
                     file |-> FALSE]>>

C5_Witness ==
    /\ pc = "done"
    /\ webhook
    /\ exists = "yes"
    /\ fault = "none"
    /\ Len(posts) = 1
    /\ posts[1].kind = "multipart"
    /\ posts[1].file
    /\ Len(posts[1].content) = 5

\* C6: once plot_chart has handed control back, by returning or by raising,
\* no figure it opened is still open.
C6_FigureClosed ==
    (Ran("plot") /\ pc \in {"build", "notify", "done"}) => figures = 0

\* The series handed to analyze_strategy in SpecAnalyze
Analyzed == pc = "analyzed" /\ HasColumn(df, "GC=F")

Prices == df.data["GC=F"]

\* C7: for a series of at least 2 points the icon is decided by the last two
\* observations alone, through their percent change: above 2 "big up", below
\* -2 "big down", above 0 "up", otherwise "down"; exactly 2 gives "up",
\* exactly -2 and exactly 0 give "down"; [100, 102, 98, 95, 110] gives
\* "big up".
C7_IconFromChange ==
    (Analyzed /\ df.rows >= 2) =>
        LET cur == Prices[Len(Prices)]
            prev == Prices[Len(Prices) - 1]
            hundredfold == 100 * (cur - prev)
        IN /\ result.ok
           /\ result.icon =
                 (IF hundredfold > 2 * prev THEN "big up"
                  ELSE IF hundredfold < -2 * prev THEN "big down"
                  ELSE IF cur > prev THEN "up"
                  ELSE "down")
           /\ hundredfold = 2 * prev => result.icon = "up"
           /\ hundredfold = -2 * prev => result.icon = "down"
           /\ cur = prev => result.icon = "down"
           /\ Prices = <<100, 102, 98, 95, 110>> =>
                 /\ result.icon = "big up"
                 /\ FEq(result.change, Fin(1500, 95))

C7_Witness ==
    /\ Analyzed
    /\ Prices = <<100, 102, 98, 95, 110>>
    /\ result.ok
    /\ result.icon = "big up"

\* C8: the regime is "silver oversold" exactly when gold > 85 x silver,
\* "gold strong" exactly when gold < 60 x silver, "normal" otherwise; a ratio
\* of exactly 85 or exactly 60 is "normal"; gold 2000 with silver 23 is
\* "silver oversold".
C8_RatioRegime ==
    pc = "plot" =>
        LET gold == Last(df.data["GC=F"])
            silver == Last(df.data["SI=F"])
        IN /\ gs.status = "silver oversold" <=> gold > 85 * silver
           /\ gs.status = "gold strong" <=> gold < 60 * silver
           /\ gs.status = "normal" <=>
                 (gold <= 85 * silver /\ gold >= 60 * silver)
           /\ gold = 85 * silver => gs.status = "normal"
           /\ gold = 60 * silver => gs.status = "normal"
           /\ (gold = 2000 /\ silver = 23) => gs.status = "silver oversold"

C8_Witness ==
    /\ pc = "plot"
    /\ Last(df.data["GC=F"]) = 2000
    /\ Last(df.data["SI=F"]) = 23
    /\ gs.status = "silver oversold"
    /\ FEq(gs.ratio, Fin(2000, 23))

AvgLoss == RollingMeanLast(Losses(Prices), period)
AvgGain == RollingMeanLast(Gains(Prices), period)

InRange(x) == IsFinite(x) /\ ~FLt(x, Num(0)) /\ ~FGt(x, Num(100))

\* C9 as amended: for a series of at least 15 points the latest RSI(14) lies
\* in [0,100] when the average loss is not 0, is exactly 100 when the average
\* loss is 0 and the average gain is not, and is NaN when both are 0.
C9_RsiRange ==
    (Analyzed /\ df.rows >= period + 1) =>
        /\ result.ok
        /\ ~FEq(AvgLoss, Num(0)) => InRange(result.rsi)
        /\ (FEq(AvgLoss, Num(0)) /\ ~FEq(AvgGain, Num(0))) =>
              FEq(result.rsi, Num(100))
        /\ (FEq(AvgLoss, Num(0)) /\ FEq(AvgGain, Num(0))) =>
              IsNaN(result.rsi)

C9_Witness ==
    /\ Analyzed
    /\ df.rows >= period + 1
    /\ FEq(AvgLoss, Num(0))
    /\ FGt(AvgGain, Num(0))
    /\ FEq(result.rsi, Num(100))

\* C9 as claimed: in [0,100], and 100 whenever the average loss is 0.
C9_Original ==
    (Analyzed /\ df.rows >= period + 1) =>
        /\ result.ok
        /\ ~FEq(AvgLoss, Num(0)) => InRange(result.rsi)
        /\ FEq(AvgLoss, Num(0)) => FEq(result.rsi, Num(100))

IsConstant(s) == \A i \in 1..Len(s) : s[i] = s[1]

\* C10: for a constant series of at least 15 points analyze_strategy yields
\* a percent change of exactly 0 and a NaN RSI (average gain and average loss
\* both 0), and the note is neither "overheated" nor "oversold".
C10_ConstantSeries ==
    (Analyzed /\ df.rows >= period + 1 /\ IsConstant(Prices)) =>
        /\ result.ok
        /\ IsFinite(result.change)
        /\ result.change.n = 0
        /\ FEq(AvgGain, Num(0))
        /\ FEq(AvgLoss, Num(0))
        /\ IsNaN(result.rsi)
        /\ result.note \notin {"overheated", "oversold"}

C10_Witness ==
    /\ Analyzed
    /\ df.rows = period + 1
    /\ IsConstant(Prices)
    /\ result.ok
    /\ IsNaN(result.rsi)
    /\ result.note = "consolidating"

====
